---- MODULE Spec2Model ----
(***************************************************************************)
(* Session / connection coordination layer of backend/server.py:           *)
(* the ConnectionManager registry, the session store operations (create,   *)
(* read, join, persisted message) and the websocket handler with its       *)
(* fan-out.  Every coroutine is cut at its await points: one action is the *)
(* code that runs between two suspensions.                                 *)
(***************************************************************************)
EXTENDS Integers, Sequences, FiniteSets, TLC

VARIABLES
    interview_sessions,  \* db.interview_sessions: session_id -> document
    users,               \* db.users: user_id -> document
    active_connections,  \* manager.active_connections: user_id -> websocket
    websockets,          \* the WebSocket objects ever accepted, by channel number
    handler,             \* the websocket_endpoint coroutine of each channel
    req,                 \* the HTTP request coroutines
    submitted,           \* history: messages submitted to each session, in order
    personal,            \* outcome of the last direct send_personal_message call
    disconnect_call      \* the last direct manager.disconnect call: its argument
                         \* and the registry it was applied to

vars == <<interview_sessions, users, active_connections, websockets, handler,
          req, submitted, personal, disconnect_call>>

(***************************************************************************)
(* Bounds                                                                  *)
(***************************************************************************)
MaxChannels == 2
MaxMsgs == 2
MaxReqs == 2

\* identities are opaque tokens; uuid4 hands out the next one not yet used, and
\* a request may name any of them, created or not
SessionIds == {"s1", "s2"}
UserIds == {"u1", "u2"}
SessionPool == <<"s1", "s2">>
UserPool == <<"u1", "u2">>
Roles == {"candidate", "hr", "observer"}
Channels == 1..MaxChannels
Reqs == 1..MaxReqs

None == "None"
DATETIME == "<datetime>"
EmptyDict == [k \in {} |-> None]

(***************************************************************************)
(* Python helpers                                                          *)
(***************************************************************************)
\* dict.get(key) and dict.get(key, default)
GetOr(d, k, default) == IF k \in DOMAIN d THEN d[k] ELSE default
Get(d, k) == GetOr(d, k, None)

\* truth value of an Optional[str]
Truthy(v) == v # None /\ v # ""

\* json.dumps: a datetime value is not JSON serializable (TypeError)
Serializable(d) == \A k \in DOMAIN d : d[k] # DATETIME
json_dumps(d) == [json |-> d]

\* an update that writes the document anew and so empties its sequence
MongoSetReset(doc, upd) ==
    [k \in DOMAIN doc \cup DOMAIN upd |->
        IF k \in DOMAIN upd THEN upd[k]
        ELSE IF k = "messages" THEN <<>> ELSE doc[k]]

\* MongoDB {"$set": upd} on one document
MongoSet(doc, upd) ==
    [k \in DOMAIN doc \cup DOMAIN upd |-> IF k \in DOMAIN upd THEN upd[k] ELSE doc[k]]

\* a push that puts the new element first
MongoPushFront(doc, m) == [doc EXCEPT !.messages = <<m>> \o @]

\* a push that stores nothing
MongoPushDropped(doc, m) == doc

\* MongoDB {"$push": {"messages": m}} on one document
MongoPush(doc, m) == [doc EXCEPT !.messages = Append(@, m)]

(***************************************************************************)
(* Models                                                                  *)
(***************************************************************************)
\* InterviewSession(**SessionCreate).dict()
NewSession(sid) ==
    [session_id |-> sid, candidate_id |-> None, hr_id |-> None,
     status |-> "waiting", messages |-> <<>>]

\* User(**UserCreate).dict()
NewUser(uid) == [user_id |-> uid, session_id |-> None]

\* Message(...).dict(): timestamp is a datetime object
MessageDict(sid, sender, role, type, content) ==
    [session_id |-> sid, sender_id |-> sender, sender_role |-> role,
     message_type |-> type, content |-> content, timestamp |-> DATETIME]

\* request bodies of POST /sessions/{id}/messages
Bodies ==
    { MessageDict("s1", "u1", "candidate", "sign_to_text", "hello"),
      MessageDict("s2", "u2", "hr", "text_to_speech", "welcome") }

\* a coroutine that is not running
IdleTask ==
    [op |-> "none", pc |-> "idle", session_id |-> None, user_id |-> None,
     role |-> None, message |-> EmptyDict, update_data |-> EmptyDict,
     parts |-> <<>>, sends |-> <<>>, exc |-> None,
     status_code |-> 0, response |-> EmptyDict]

\* str(uuid.uuid4()): the first identity of the pool that is not in use
uuid4(pool, used) ==
    pool[CHOOSE i \in 1..Len(pool) :
            /\ pool[i] \notin used
            /\ \A j \in 1..(i - 1) : pool[j] \in used]
Exhausted(pool, used) == \A i \in 1..Len(pool) : pool[i] \in used

Running(t) == t.pc \notin {"idle", "receive", "ended", "crashed"}

\* no coroutine is between two of its await points
Quiet ==
    /\ \A r \in Reqs : ~Running(req[r])
    /\ \A c \in DOMAIN handler : ~Running(handler[c])

Free(r) == req[r].pc = "idle"

\* the response leaves and the request coroutine is gone
respond(r) ==
    /\ req[r].pc = "done"
    /\ req' = [req EXCEPT ![r] = IdleTask]
    /\ UNCHANGED <<interview_sessions, users, active_connections, websockets,
                   handler, submitted, personal, disconnect_call>>

Reply(t, code, body) ==
    [t EXCEPT !.pc = "done", !.status_code = code, !.response = body]

Init ==
    /\ interview_sessions = EmptyDict
    /\ users = EmptyDict
    /\ active_connections = EmptyDict
    /\ websockets = <<>>
    /\ handler = <<>>
    /\ req = [r \in Reqs |-> IdleTask]
    /\ submitted = [s \in SessionIds |-> <<>>]
    /\ personal = [user_id |-> None, sends |-> <<>>, raised |-> FALSE]
    /\ disconnect_call = [user_id |-> None, before |-> EmptyDict]

(***************************************************************************)
(* POST /users, GET /users/{user_id}                                       *)
(***************************************************************************)
create_user(r) ==
    /\ Free(r)
    /\ ~Exhausted(UserPool, DOMAIN users)
    /\ LET uid == uuid4(UserPool, DOMAIN users)
       IN  /\ users' = (uid :> NewUser(uid)) @@ users
           /\ req' = [req EXCEPT ![r] =
                        Reply([IdleTask EXCEPT !.op = "create_user", !.user_id = uid],
                              200, NewUser(uid))]
    /\ UNCHANGED <<interview_sessions, active_connections, websockets, handler,
                   submitted, personal, disconnect_call>>

get_user(r, uid) ==
    /\ Free(r)
    /\ LET t == [IdleTask EXCEPT !.op = "get_user", !.user_id = uid]
       IN  req' = [req EXCEPT ![r] =
                     IF uid \notin DOMAIN users
                     THEN Reply(t, 404, [detail |-> "User not found"])
                     ELSE Reply(t, 200, users[uid])]
    /\ UNCHANGED <<interview_sessions, users, active_connections, websockets,
                   handler, submitted, personal, disconnect_call>>

(***************************************************************************)
(* POST /sessions, GET /sessions/{session_id}                              *)
(***************************************************************************)
create_session(r) ==
    /\ Free(r)
    /\ ~Exhausted(SessionPool, DOMAIN interview_sessions)
    /\ LET sid == uuid4(SessionPool, DOMAIN interview_sessions)
       IN  /\ interview_sessions' = (sid :> NewSession(sid)) @@ interview_sessions
           /\ req' = [req EXCEPT ![r] =
                        Reply([IdleTask EXCEPT !.op = "create_session", !.session_id = sid],
                              200, NewSession(sid))]
    /\ UNCHANGED <<users, active_connections, websockets, handler, submitted,
                   personal, disconnect_call>>

\* a read that answers a fresh document for a session it does not find
get_session_default(r, sid) ==
    /\ Free(r)
    /\ req' = [req EXCEPT ![r] =
                 Reply([IdleTask EXCEPT !.op = "get_session", !.session_id = sid], 200,
                       GetOr(interview_sessions, sid, NewSession(sid)))]
    /\ UNCHANGED <<interview_sessions, users, active_connections, websockets,
                   handler, submitted, personal, disconnect_call>>

get_session(r, sid) ==
    /\ Free(r)
    /\ LET t == [IdleTask EXCEPT !.op = "get_session", !.session_id = sid]
       IN  req' = [req EXCEPT ![r] =
                     IF sid \notin DOMAIN interview_sessions
                     THEN Reply(t, 404, [detail |-> "Session not found"])
                     ELSE Reply(t, 200, interview_sessions[sid])]
    /\ UNCHANGED <<interview_sessions, users, active_connections, websockets,
                   handler, submitted, personal, disconnect_call>>

(***************************************************************************)
(* POST /sessions/{session_id}/join                                        *)
(***************************************************************************)
\* a join that puts the user in both slots
JoinSlotBoth(role, user_id) ==
    IF role \in {"candidate", "hr"}
    THEN ("candidate_id" :> user_id) @@ ("hr_id" :> user_id)
    ELSE EmptyDict

\* update_data as built from the session document that find_one returned
JoinSlot(role, user_id) ==
    IF role = "candidate" THEN ("candidate_id" :> user_id)
    ELSE IF role = "hr" THEN ("hr_id" :> user_id)
    ELSE EmptyDict

\* a status that goes active on any candidate or hr join
JoinStatusAlways(session, role) ==
    IF role \in {"candidate", "hr"} THEN ("status" :> "active") ELSE EmptyDict

\* a status written on every candidate or hr join, from the document read
JoinStatusRecomputed(session, role) ==
    IF role = "candidate"
    THEN ("status" :> IF Truthy(Get(session, "hr_id")) THEN "active" ELSE "waiting")
    ELSE IF role = "hr"
    THEN ("status" :> IF Truthy(Get(session, "candidate_id")) THEN "active" ELSE "waiting")
    ELSE EmptyDict

JoinStatus(session, role) ==
    IF role = "candidate" /\ Truthy(Get(session, "hr_id")) THEN ("status" :> "active")
    ELSE IF role = "hr" /\ Truthy(Get(session, "candidate_id")) THEN ("status" :> "active")
    ELSE EmptyDict

JoinUpdateData(session, user_id, role) ==
    JoinStatus(session, role) @@ JoinSlot(role, user_id)

\* a join that goes on to its updates whether or not find_one found the session
join_find_unchecked(r, sid, uid, role) ==
    /\ Free(r)
    /\ req' = [req EXCEPT ![r] =
                 [IdleTask EXCEPT !.op = "join", !.pc = "join_update", !.session_id = sid,
                                  !.user_id = uid, !.role = role,
                                  !.update_data =
                                      JoinUpdateData(GetOr(interview_sessions, sid, EmptyDict),
                                                     uid, role)]]
    /\ UNCHANGED <<interview_sessions, users, active_connections, websockets,
                   handler, submitted, personal, disconnect_call>>

\* find_one, the 404 check and the construction of update_data
join_find(r, sid, uid, role) ==
    /\ Free(r)
    /\ LET t == [IdleTask EXCEPT !.op = "join", !.session_id = sid,
                                 !.user_id = uid, !.role = role]
       IN  req' = [req EXCEPT ![r] =
                     IF sid \notin DOMAIN interview_sessions
                     THEN Reply(t, 404, [detail |-> "Session not found"])
                     ELSE [t EXCEPT !.pc = "join_update",
                                    !.update_data =
                                        JoinUpdateData(interview_sessions[sid], uid, role)]]
    /\ UNCHANGED <<interview_sessions, users, active_connections, websockets,
                   handler, submitted, personal, disconnect_call>>

\* interview_sessions.update_one({"$set": update_data}); an empty $set is
\* rejected by a MongoDB server older than 5.0 and a no-op on a newer one
join_update_session(r) ==
    /\ req[r].pc = "join_update"
    /\ LET t == req[r]
           sid == t.session_id
       IN  \/ /\ interview_sessions' =
                    IF sid \in DOMAIN interview_sessions
                    THEN [interview_sessions EXCEPT ![sid] = MongoSet(@, t.update_data)]
                    ELSE interview_sessions
              /\ req' = [req EXCEPT ![r].pc = "join_user"]
           \/ /\ DOMAIN t.update_data = {}
              /\ req' = [req EXCEPT ![r] =
                           Reply([t EXCEPT !.exc = "WriteError"], 500,
                                 [detail |-> "Internal Server Error"])]
              /\ UNCHANGED interview_sessions
    /\ UNCHANGED <<users, active_connections, websockets, handler, submitted,
                   personal, disconnect_call>>

\* a user update that keeps a session_id the user already has
join_update_user_once(r) ==
    /\ req[r].pc = "join_user"
    /\ LET t == req[r]
           uid == t.user_id
       IN  /\ users' = IF uid \in DOMAIN users /\ users[uid].session_id = None
                       THEN [users EXCEPT ![uid] =
                               MongoSet(@, ("session_id" :> t.session_id))]
                       ELSE users
           /\ req' = [req EXCEPT ![r] =
                        Reply(t, 200,
                              [message |-> "Joined session successfully",
                               status |-> GetOr(t.update_data, "status", "waiting")])]
    /\ UNCHANGED <<interview_sessions, active_connections, websockets, handler,
                   submitted, personal, disconnect_call>>

\* users.update_one({"$set": {"session_id": session_id}}) and the response
join_update_user(r) ==
    /\ req[r].pc = "join_user"
    /\ LET t == req[r]
           uid == t.user_id
       IN  /\ users' = IF uid \in DOMAIN users
                       THEN [users EXCEPT ![uid] =
                               MongoSet(@, ("session_id" :> t.session_id))]
                       ELSE users
           /\ req' = [req EXCEPT ![r] =
                        Reply(t, 200,
                              [message |-> "Joined session successfully",
                               status |-> GetOr(t.update_data, "status", "waiting")])]
    /\ UNCHANGED <<interview_sessions, active_connections, websockets, handler,
                   submitted, personal, disconnect_call>>

(***************************************************************************)
(* ConnectionManager                                                       *)
(***************************************************************************)
\* a guard that forgets the client_state test
SendableAnyState(p) == Truthy(p) /\ p \in DOMAIN active_connections

\* the guard of send_personal_message and of the loop of send_to_session:
\* registered, and client_state CONNECTED
Sendable(p) ==
    /\ Truthy(p)
    /\ p \in DOMAIN active_connections
    /\ websockets[active_connections[p]].client_state = "CONNECTED"

\* what awaiting websocket.send_text can do: it succeeds on a live transport;
\* on a transport whose peer is gone or which the server has closed the bytes
\* are lost or the call raises, depending on the ASGI server
SendOutcomes(c) ==
    IF websockets[c].link = "up" THEN {"ok"}
    ELSE {"lost", "WebSocketDisconnect", "RuntimeError"}

Raises(o) == o \in {"WebSocketDisconnect", "RuntimeError"}

\* an unregistering that clears the registry
DisconnectAll(conns, user_id) ==
    IF user_id \in DOMAIN conns THEN EmptyDict ELSE conns

\* manager.disconnect(user_id)
Disconnect(conns, user_id) ==
    [u \in DOMAIN conns \ {user_id} |-> conns[u]]

\* manager.disconnect(user_id), called on its own
disconnect(user_id) ==
    /\ active_connections' = Disconnect(active_connections, user_id)
    /\ disconnect_call' = [user_id |-> user_id, before |-> active_connections]
    /\ UNCHANGED <<interview_sessions, users, websockets, handler, req, submitted,
                   personal>>

\* manager.connect: the registry after accept()
Connect(conns, user_id, c) ==
    [u \in DOMAIN conns \cup {user_id} |-> IF u = user_id THEN c ELSE conns[u]]

\* manager.send_personal_message(message, user_id), called on its own
send_personal_message(text, user_id) ==
    /\ IF Sendable(user_id)
       THEN \E o \in SendOutcomes(active_connections[user_id]) :
               personal' = [user_id |-> user_id,
                            sends |-> <<[ch |-> active_connections[user_id],
                                         text |-> text, outcome |-> o]>>,
                            raised |-> Raises(o)]
       ELSE personal' = [user_id |-> user_id, sends |-> <<>>, raised |-> FALSE]
    /\ UNCHANGED <<interview_sessions, users, active_connections, websockets,
                   handler, req, submitted, disconnect_call>>

\* the participants the loop of send_to_session passes over without a send
RECURSIVE SkipUnsendable(_)
SkipUnsendable(parts) ==
    IF parts = <<>> THEN <<>>
    ELSE IF Sendable(Head(parts)) THEN parts
    ELSE SkipUnsendable(Tail(parts))

\* await websocket.send_text(json.dumps(message)) with outcome o
SendText(t, c, o) ==
    IF ~Serializable(t.message) THEN [t EXCEPT !.exc = "TypeError"]
    ELSE [t EXCEPT !.sends = Append(@, [ch |-> c, text |-> json_dumps(t.message),
                                        outcome |-> o]),
                   !.exc = IF Raises(o) THEN o ELSE None]

\* the loop of send_to_session from the participants still to visit, up to
\* its next suspension (after a send), its return or an exception
FanoutResume(t) ==
    LET rest == SkipUnsendable(t.parts)
    IN  IF rest = <<>>
        THEN {[t EXCEPT !.parts = <<>>, !.pc = "returned"]}
        ELSE { LET t2 == SendText([t EXCEPT !.parts = Tail(rest)],
                                  active_connections[Head(rest)], o)
               IN  [t2 EXCEPT !.pc = IF t2.exc # None THEN "raised"
                                     ELSE IF Tail(rest) = <<>> THEN "returned"
                                     ELSE "fanout_loop"]
               : o \in SendOutcomes(active_connections[Head(rest)]) }

\* a resolution that takes every identity for a participant of a session it
\* does not find
ParticipantsOfAny(sid) ==
    IF sid \in DOMAIN interview_sessions
    THEN <<Get(interview_sessions[sid], "candidate_id"),
           Get(interview_sessions[sid], "hr_id")>>
    ELSE UserPool

\* the participant list read from the session document find_one returned
Participants(sid) ==
    IF sid \in DOMAIN interview_sessions
    THEN <<Get(interview_sessions[sid], "candidate_id"),
           Get(interview_sessions[sid], "hr_id")>>
    ELSE <<>>

\* send_to_session from the return of find_one
FanoutFind(t) == FanoutResume([t EXCEPT !.parts = Participants(t.session_id)])

\* send_to_session resumed where the coroutine is suspended
Fanout(t) == IF t.pc = "fanout_find" THEN FanoutFind(t) ELSE FanoutResume(t)

(***************************************************************************)
(* POST /sessions/{session_id}/messages                                    *)
(***************************************************************************)
\* message.dict() and the $push
send_message(r, sid, body) ==
    /\ Free(r)
    /\ interview_sessions' =
           IF sid \in DOMAIN interview_sessions
           THEN [interview_sessions EXCEPT ![sid] = MongoPush(@, body)]
           ELSE interview_sessions
    /\ submitted' = IF sid \in DOMAIN interview_sessions
                    THEN [submitted EXCEPT ![sid] = Append(@, body)]
                    ELSE submitted
    /\ req' = [req EXCEPT ![r] =
                 [IdleTask EXCEPT !.op = "send_message", !.pc = "fanout_find",
                                  !.session_id = sid, !.message = body]]
    /\ UNCHANGED <<users, active_connections, websockets, handler, personal,
                   disconnect_call>>

\* how the request ends when send_to_session returns or raises
SendMessageEnd(t) ==
    IF t.pc = "raised" THEN Reply(t, 500, [detail |-> "Internal Server Error"])
    ELSE IF t.pc = "returned" THEN Reply(t, 200, [message |-> "Message sent successfully"])
    ELSE t

\* manager.send_to_session(message_dict, session_id), from one suspension to
\* the next, and the response
send_message_fanout(r) ==
    /\ req[r].op = "send_message"
    /\ req[r].pc \in {"fanout_find", "fanout_loop"}
    /\ \E t \in Fanout(req[r]) : req' = [req EXCEPT ![r] = SendMessageEnd(t)]
    /\ UNCHANGED <<interview_sessions, users, active_connections, websockets,
                   handler, submitted, personal, disconnect_call>>

(***************************************************************************)
(* /ws/{user_id}                                                           *)
(***************************************************************************)
\* texts a client sends: JSON objects, and a text json.loads rejects
Ping == [type |-> "ping"]
Pong == [type |-> "pong"]
LiveMessage(sid) == [type |-> "message", session_id |-> sid, content |-> "live"]
Envelopes ==
    {Ping, [type |-> "message", content |-> "live"], [type |-> "typing"],
     [content |-> "live"]} \cup {LiveMessage(sid) : sid \in SessionIds}
Garbage == [raw |-> "not json"]
Texts == {json_dumps(d) : d \in Envelopes} \cup {Garbage}

\* json.loads succeeds on the texts json.dumps produces
Loadable(text) == "json" \in DOMAIN text
json_loads(text) == text.json

\* the handler suspended in receive_text, and after its coroutine is gone
Receiving(uid) == [IdleTask EXCEPT !.op = "ws", !.pc = "receive", !.user_id = uid]
Gone(uid, pc) == [IdleTask EXCEPT !.op = "ws", !.pc = pc, !.user_id = uid]

\* the handler of channel c is over: it left the loop through an exception
Terminated(c) == handler[c].pc \in {"caught", "failed", "ended", "crashed"}

\* manager.connect(websocket, user_id) and the entry into the receive loop
websocket_connect(uid) ==
    /\ Len(websockets) < MaxChannels
    /\ LET c == Len(websockets) + 1
       IN  /\ websockets' = Append(websockets,
                               [user_id |-> uid, client_state |-> "CONNECTED",
                                link |-> "up"])
           /\ active_connections' = Connect(active_connections, uid, c)
           /\ handler' = Append(handler, Receiving(uid))
    /\ UNCHANGED <<interview_sessions, users, req, submitted, personal, disconnect_call>>

\* the client side of channel c goes away (close frame or lost connection)
peer_close(c) ==
    /\ c \in DOMAIN websockets
    /\ websockets[c].link = "up"
    /\ websockets' = [websockets EXCEPT ![c].link = "down"]
    /\ UNCHANGED <<interview_sessions, users, active_connections, handler, req,
                   submitted, personal, disconnect_call>>

\* where the handler stands once the loop body has returned or raised: only
\* WebSocketDisconnect is caught, and its except clause unregisters user_id
HandlerEnd(t) ==
    IF t.pc = "returned" THEN [t EXCEPT !.pc = "handled"]
    ELSE IF t.pc = "raised"
         THEN [t EXCEPT !.pc = IF t.exc = "WebSocketDisconnect" THEN "caught" ELSE "failed"]
    ELSE t

HandlerStep(c, t) ==
    LET h == HandlerEnd(t)
    IN  /\ handler' = [handler EXCEPT ![c] = h]
        /\ active_connections' =
               IF h.pc = "caught" THEN Disconnect(active_connections, h.user_id)
               ELSE active_connections

\* receive_text raises WebSocketDisconnect: the peer of channel c is gone
websocket_disconnect(c) ==
    /\ c \in DOMAIN handler
    /\ handler[c].pc = "receive"
    /\ websockets[c].link = "down"
    /\ websockets' = [websockets EXCEPT ![c].client_state = "DISCONNECTED"]
    /\ HandlerStep(c, [handler[c] EXCEPT !.pc = "raised", !.exc = "WebSocketDisconnect"])
    /\ UNCHANGED <<interview_sessions, users, req, submitted, personal, disconnect_call>>

\* a ping that answers with the ping itself
PingEcho(c) == <<[ch |-> c, text |-> json_dumps(Ping), outcome |-> "ok"]>>

\* websocket.send_text(json.dumps({"type": "pong"})) on the receiving channel
PingReply(c) == <<[ch |-> c, text |-> json_dumps(Pong), outcome |-> "ok"]>>

\* one turn of the receive loop: receive_text, json.loads and the dispatch
websocket_receive(c, text) ==
    /\ c \in DOMAIN handler
    /\ handler[c].pc = "receive"
    /\ websockets[c].link = "up"
    /\ LET t == handler[c]
       IN  IF ~Loadable(text)
           THEN HandlerStep(c, [t EXCEPT !.pc = "raised", !.exc = "JSONDecodeError"])
           ELSE LET message_data == json_loads(text)
                    m == [t EXCEPT !.message = message_data]
                IN  IF Get(message_data, "type") = "ping"
                    THEN HandlerStep(c, [m EXCEPT !.pc = "returned", !.sends = PingReply(c)])
                    ELSE IF /\ Get(message_data, "type") = "message"
                            /\ Truthy(Get(message_data, "session_id"))
                         THEN HandlerStep(c, [m EXCEPT !.pc = "fanout_find",
                                                       !.session_id = message_data.session_id])
                         ELSE HandlerStep(c, [m EXCEPT !.pc = "returned"])
    /\ UNCHANGED <<interview_sessions, users, websockets, req, submitted, personal,
                   disconnect_call>>

\* manager.send_to_session(message_data, session_id), from one suspension to
\* the next
websocket_fanout(c) ==
    /\ c \in DOMAIN handler
    /\ handler[c].pc \in {"fanout_find", "fanout_loop"}
    /\ \E t \in Fanout(handler[c]) : HandlerStep(c, t)
    /\ UNCHANGED <<interview_sessions, users, websockets, req, submitted, personal,
                   disconnect_call>>

\* the loop goes back to receive_text; or the coroutine is over and the server
\* closes the transport
websocket_next(c) ==
    /\ c \in DOMAIN handler
    /\ handler[c].pc \in {"handled", "caught", "failed"}
    /\ LET uid == handler[c].user_id
       IN  handler' = [handler EXCEPT ![c] =
                         IF handler[c].pc = "handled" THEN Receiving(uid)
                         ELSE IF handler[c].pc = "caught" THEN Gone(uid, "ended")
                         ELSE Gone(uid, "crashed")]
    /\ websockets' = IF handler[c].pc = "handled" THEN websockets
                     ELSE [websockets EXCEPT ![c].link = "down"]
    /\ UNCHANGED <<interview_sessions, users, active_connections, req, submitted,
                   personal, disconnect_call>>

(***************************************************************************)
(* Specifications                                                          *)
(***************************************************************************)
\* requests are served one after another: none begins while a coroutine is
\* between two of its await points, and it takes the first free slot
Accept(r) ==
    /\ Quiet
    /\ Free(r)
    /\ \A q \in Reqs : q < r => ~Free(q)

RECURSIVE Stored(_)
Stored(sids) ==
    IF sids = {} THEN 0
    ELSE LET sid == CHOOSE x \in sids : TRUE
         IN  Len(interview_sessions[sid].messages) + Stored(sids \ {sid})

\* the store holds fewer messages than the bound
Room == Stored(DOMAIN interview_sessions) < MaxMsgs

\* the session store under requests served one after another
NextStore ==
    \/ \E r \in Reqs : Accept(r) /\ create_user(r)
    \/ \E r \in Reqs, uid \in UserIds : Accept(r) /\ get_user(r, uid)
    \/ \E r \in Reqs : Accept(r) /\ create_session(r)
    \/ \E r \in Reqs, sid \in SessionIds : Accept(r) /\ get_session(r, sid)
    \/ \E r \in Reqs, sid \in SessionIds, uid \in UserIds, role \in Roles :
          Accept(r) /\ join_find(r, sid, uid, role)
    \/ \E r \in Reqs, sid \in SessionIds, body \in Bodies :
          Accept(r) /\ Room /\ send_message(r, sid, body)
    \/ \E r \in Reqs : join_update_session(r)
    \/ \E r \in Reqs : join_update_user(r)
    \/ \E r \in Reqs : send_message_fanout(r)
    \/ \E r \in Reqs : respond(r)
SpecStore == Init /\ [][NextStore]_vars

\* one session holding at most one message, its live channels and both
\* fan-out paths, one operation after another
NextLive ==
    \/ \E r \in Reqs : Accept(r) /\ DOMAIN interview_sessions = {} /\ create_session(r)
    \/ \E r \in Reqs, sid \in SessionIds, uid \in UserIds, role \in Roles :
          Accept(r) /\ join_find(r, sid, uid, role)
    \/ \E r \in Reqs, sid \in SessionIds, body \in Bodies :
          Accept(r) /\ Stored(DOMAIN interview_sessions) = 0 /\ send_message(r, sid, body)
    \/ \E uid \in UserIds : Quiet /\ websocket_connect(uid)
    \/ \E c \in Channels : Quiet /\ peer_close(c)
    \/ \E c \in Channels : Quiet /\ websocket_disconnect(c)
    \/ \E c \in Channels, text \in Texts : Quiet /\ websocket_receive(c, text)
    \/ \E r \in Reqs : join_update_session(r)
    \/ \E r \in Reqs : join_update_user(r)
    \/ \E r \in Reqs : send_message_fanout(r)
    \/ \E r \in Reqs : respond(r)
    \/ \E c \in Channels : websocket_fanout(c)
    \/ \E c \in Channels : websocket_next(c)
SpecLive == Init /\ [][NextLive]_vars

\* send_personal_message applied to any registry: every assignment of
\* identities to accepted channels, each channel in any state
InitSend ==
    /\ interview_sessions = EmptyDict
    /\ users = EmptyDict
    /\ websockets \in [Channels -> [user_id : UserIds,
                                    client_state : {"CONNECTING", "CONNECTED", "DISCONNECTED"},
                                    link : {"up", "down"}]]
    /\ active_connections \in UNION {[D -> Channels] : D \in SUBSET UserIds}
    /\ \A u \in DOMAIN active_connections : websockets[active_connections[u]].user_id = u
    /\ handler = [c \in Channels |-> Receiving(websockets[c].user_id)]
    /\ req = [r \in Reqs |-> IdleTask]
    /\ submitted = [s \in SessionIds |-> <<>>]
    /\ personal = [user_id |-> None, sends |-> <<>>, raised |-> FALSE]
    /\ disconnect_call = [user_id |-> None, before |-> EmptyDict]

NextSend ==
    \E uid \in UserIds, text \in {json_dumps(Pong)} : send_personal_message(text, uid)
SpecSend == InitSend /\ [][NextSend]_vars

\* the joins sent while requests overlap: u1 is the candidate, u2 the
\* interviewer, who also joins once in a role the code does not know
JoinRequests ==
    { [user_id |-> "u1", role |-> "candidate"],
      [user_id |-> "u2", role |-> "hr"],
      [user_id |-> "u2", role |-> "observer"] }

\* requests in flight together: a request begins in the first free slot while
\* others are suspended at their store calls, each resumes in any order, and
\* a finished request is answered before anything else runs
Answered == \A r \in Reqs : req[r].pc # "done"

Begin(r) ==
    /\ Answered
    /\ Free(r)
    /\ \A q \in Reqs : q < r => ~Free(q)

\* one session under joins and persisted messages that interleave at their
\* store calls
NextConcurrent ==
    \/ \E r \in Reqs : Begin(r) /\ DOMAIN interview_sessions = {} /\ create_session(r)
    \/ \E r \in Reqs, sid \in SessionIds, j \in JoinRequests :
          Begin(r) /\ join_find(r, sid, j.user_id, j.role)
    \/ \E r \in Reqs, sid \in SessionIds, body \in Bodies :
          Begin(r) /\ Room /\ send_message(r, sid, body)
    \/ \E r \in Reqs : Answered /\ join_update_session(r)
    \/ \E r \in Reqs : Answered /\ join_update_user(r)
    \/ \E r \in Reqs : Answered /\ send_message_fanout(r)
    \/ \E r \in Reqs : respond(r)
SpecConcurrent == Init /\ [][NextConcurrent]_vars

\* manager.disconnect applied, again and again, to any registry
NextRegistry == \E uid \in UserIds : disconnect(uid)
SpecRegistry == InitSend /\ [][NextRegistry]_vars

(***************************************************************************)
(* Properties                                                              *)
(***************************************************************************)
Range(seq) == {seq[i] : i \in DOMAIN seq}

\* identity p is registered with a channel that is connected and whose peer
\* is there
Open(p) == Sendable(p) /\ websockets[active_connections[p]].link = "up"

\* the channels a coroutine has delivered a text to
Delivered(t) == {x.ch : x \in {y \in Range(t.sends) : y.outcome = "ok"}}

\* C1: under joins served one after another, a stored session is 'active'
\* exactly when candidate_id and hr_id are both non-null, and 'waiting'
\* otherwise; this holds from creation on and after every join.
C1_StatusIffBothPresent ==
    \A sid \in DOMAIN interview_sessions :
        LET s == interview_sessions[sid]
        IN  /\ s.status \in {"waiting", "active"}
            /\ s.status = "active" <=> (s.candidate_id # None /\ s.hr_id # None)

\* a re-join as candidate has just been written to a session that user u1
\* holds in both slots
C1_Witness ==
    \E r \in Reqs, sid \in DOMAIN interview_sessions :
        /\ req[r].op = "join" /\ req[r].pc = "done" /\ req[r].status_code = 200
        /\ req[r].session_id = sid /\ req[r].role = "candidate"
        /\ interview_sessions[sid].candidate_id = "u1"
        /\ interview_sessions[sid].hr_id = "u1"
        /\ interview_sessions[sid].status = "active"

\* C2: the 'status' of every successful join response equals the status
\* stored on the session record right after that join.
C2_JoinResponseStatus ==
    \A r \in Reqs :
        (req[r].op = "join" /\ req[r].pc = "done" /\ req[r].status_code = 200)
            => req[r].response.status = interview_sessions[req[r].session_id].status

\* C3: no registry entry belongs to a channel whose handler has terminated.
C3_NoStaleEntry ==
    \A u \in DOMAIN active_connections : ~Terminated(active_connections[u])

\* C4: the registry keeps mapping an identity to its latest channel for as
\* long as that channel's handler lives: a step that neither ends that
\* handler nor accepts a new connection leaves the entry in place.
C4_LastConnectWins ==
    [][\A u \in DOMAIN active_connections :
          LET c == active_connections[u]
          IN  (handler'[c].pc \notin {"caught", "failed", "ended", "crashed"}
               /\ Len(websockets') = Len(websockets))
                  => (u \in DOMAIN active_connections' /\ active_connections'[u] = c)]_vars

\* C5: a persisted-message submission to an existing session is acknowledged,
\* appended to the session's sequence, and pushed with the same content to
\* every participant that has an open registered channel.
C5_PersistedMessagePushed ==
    \A r \in Reqs :
        (req[r].op = "send_message" /\ req[r].pc = "done"
         /\ req[r].session_id \in DOMAIN interview_sessions)
            => LET s == interview_sessions[req[r].session_id]
               IN  /\ req[r].status_code = 200
                   /\ s.messages # <<>>
                   /\ s.messages[Len(s.messages)] = req[r].message
                   /\ \A p \in {s.candidate_id, s.hr_id} :
                         Open(p) =>
                            \E x \in Range(req[r].sends) :
                               /\ x.ch = active_connections[p]
                               /\ x.outcome = "ok"
                               /\ x.text.json.content = req[r].message.content

\* C6: a session read returns the messages submitted to that session, in the
\* order of submission, each with the content, sender_id and message_type it
\* was submitted with.
C6_RoundTrip ==
    \A r \in Reqs :
        (req[r].op = "get_session" /\ req[r].pc = "done" /\ req[r].status_code = 200)
            => LET got == req[r].response.messages
                   sub == submitted[req[r].session_id]
               IN  /\ Len(got) = Len(sub)
                   /\ \A i \in DOMAIN sub :
                         /\ got[i].content = sub[i].content
                         /\ got[i].sender_id = sub[i].sender_id
                         /\ got[i].message_type = sub[i].message_type

\* a read returns two messages that differ in content, sender and type
C6_Witness ==
    \E r \in Reqs :
        /\ req[r].op = "get_session" /\ req[r].pc = "done" /\ req[r].status_code = 200
        /\ Len(req[r].response.messages) = 2
        /\ req[r].response.messages[1].content # req[r].response.messages[2].content
        /\ req[r].response.messages[1].sender_id # req[r].response.messages[2].sender_id

\* the loop body of channel c's handler ends in this step, on a parsed text
LoopBodyEnds(c) ==
    /\ handler[c].pc \in {"receive", "fanout_find", "fanout_loop"}
    /\ handler'[c].pc \in {"handled", "caught", "failed"}
    /\ DOMAIN handler'[c].message # {}

\* C7: a live 'message' envelope with a session_id is delivered to exactly
\* the candidate and hr of that session that have an open registered channel,
\* and an envelope without session_id causes no send.
C7_LiveMessageRecipients ==
    [][\A c \in DOMAIN handler :
          (LoopBodyEnds(c) /\ Get(handler'[c].message, "type") = "message")
              => IF Truthy(Get(handler'[c].message, "session_id"))
                 THEN Delivered(handler'[c]) =
                        {active_connections[p] :
                            p \in {q \in Range(Participants(handler'[c].message.session_id)) :
                                      Open(q)}}
                 ELSE handler'[c].sends = <<>>]_vars

\* the envelope is one the protocol swallows: an unknown or missing
\* discriminator, a 'message' without session_id, or a 'message' whose
\* session has no participant with an open registered channel
Swallowed(m) ==
    \/ Get(m, "type") \notin {"ping", "message"}
    \/ /\ Get(m, "type") = "message"
       /\ \/ ~Truthy(Get(m, "session_id"))
          \/ \A p \in Range(Participants(m.session_id)) : ~Open(p)

\* C8: a swallowed envelope delivers nothing on any channel and leaves the
\* receiving channel connected, its registry entry as it was and its handler
\* in the loop.
C8_SwallowedErrors ==
    [][\A c \in DOMAIN handler :
          (LoopBodyEnds(c) /\ Swallowed(handler'[c].message))
              => /\ handler'[c].pc = "handled"
                 /\ Delivered(handler'[c]) = {}
                 /\ active_connections' = active_connections
                 /\ websockets'[c] = websockets[c]]_vars

\* C9: send_personal_message performs channel I/O exactly when the identity
\* is registered with a channel whose client_state is CONNECTED; otherwise it
\* sends nothing and raises nothing; and it changes neither the registry nor
\* a channel nor the store.
C9_SendOnlyIfOpen ==
    [][personal' # personal
          => LET u == personal'.user_id
                 registered == u \in DOMAIN active_connections
                 connected == websockets[active_connections[u]].client_state = "CONNECTED"
             IN  /\ personal'.sends # <<>> <=> (registered /\ connected)
                 /\ ~(registered /\ connected) => ~personal'.raised
                 /\ UNCHANGED <<active_connections, websockets, interview_sessions,
                                users>>]_vars

\* a send to an identity registered with a channel that is not connected
C9_Witness ==
    /\ personal.user_id \in DOMAIN active_connections
    /\ websockets[active_connections[personal.user_id]].client_state = "DISCONNECTED"
    /\ personal.sends = <<>>

\* C10: handling a ping sends exactly one pong, on the channel the ping came
\* from, sends nothing else, and leaves the registry, the sessions and the
\* users unchanged.
C10_PingPong ==
    [][\A c \in DOMAIN handler :
          (handler[c].pc = "receive" /\ DOMAIN handler'[c].message = {"type"}
           /\ handler'[c].message.type = "ping")
              => /\ handler'[c].pc = "handled"
                 /\ handler'[c].sends = <<[ch |-> c, text |-> json_dumps(Pong),
                                           outcome |-> "ok"]>>
                 /\ UNCHANGED <<active_connections, interview_sessions, users,
                                websockets>>]_vars

\* a ping has been answered while another identity has a live channel and a
\* session with a participant exists
C10_Witness ==
    \E c \in DOMAIN handler :
        /\ handler[c].pc = "handled" /\ handler[c].message = Ping
        /\ handler[c].sends # <<>>
        /\ \E u \in DOMAIN active_connections : active_connections[u] # c
        /\ \E sid \in DOMAIN interview_sessions :
              interview_sessions[sid].candidate_id # None

\* C11: a join that names a session_id not in the store ends at once with
\* 404 and leaves every session document and every user document as they
\* were.
C11_JoinNotFound ==
    [][\A r \in Reqs :
          (Free(r) /\ req'[r].op = "join"
           /\ req'[r].session_id \notin DOMAIN interview_sessions)
              => /\ req'[r].pc = "done"
                 /\ req'[r].status_code = 404
                 /\ UNCHANGED <<interview_sessions, users>>]_vars

\* user u1, who joined session s1 before, has been refused a join on a
\* session_id that is not in the store
C11_Witness ==
    \E r \in Reqs :
        /\ req[r].op = "join" /\ req[r].pc = "done" /\ req[r].status_code = 404
        /\ req[r].user_id = "u1"
        /\ req[r].session_id \notin DOMAIN interview_sessions
        /\ "u1" \in DOMAIN users /\ users["u1"].session_id = "s1"
        /\ "s1" \in DOMAIN interview_sessions
        /\ interview_sessions["s1"].candidate_id = "u1"

\* C12: manager.disconnect leaves the identity unregistered and every other
\* entry as it was, does nothing when the identity was not registered, and a
\* second disconnect of the same identity gives the same registry again.
C12_DisconnectIdempotent ==
    disconnect_call.user_id # None
        => LET u == disconnect_call.user_id
               before == disconnect_call.before
               after == active_connections
           IN  /\ u \notin DOMAIN after
               /\ DOMAIN after = DOMAIN before \ {u}
               /\ \A v \in DOMAIN after : after[v] = before[v]
               /\ u \notin DOMAIN before => after = before
               /\ Disconnect(after, u) = after

\* u1 has been disconnected while it was not registered and u2 was
C12_Witness ==
    /\ disconnect_call.user_id = "u1"
    /\ "u1" \notin DOMAIN disconnect_call.before
    /\ "u2" \in DOMAIN disconnect_call.before
    /\ "u2" \in DOMAIN active_connections

\* C13: send_to_session for a session_id that is not in the store resolves no
\* participant, sends on no channel and returns without an exception, on the
\* live 'message' path (the handler goes back to its loop) and on the
\* persisted-message path (the request is answered 200).
C13_FanoutUnknownSession ==
    [][/\ \A c \in DOMAIN handler :
            (handler[c].pc = "fanout_find" /\ handler'[c] # handler[c]
             /\ handler[c].session_id \notin DOMAIN interview_sessions)
                => /\ Participants(handler[c].session_id) = <<>>
                   /\ handler'[c].pc = "handled"
                   /\ handler'[c].sends = <<>>
                   /\ handler'[c].exc = None
                   /\ UNCHANGED <<active_connections, websockets>>
       /\ \A r \in Reqs :
            (req[r].pc = "fanout_find" /\ req'[r] # req[r]
             /\ req[r].session_id \notin DOMAIN interview_sessions)
                => /\ Participants(req[r].session_id) = <<>>
                   /\ req'[r].pc = "done"
                   /\ req'[r].status_code = 200
                   /\ req'[r].sends = <<>>
                   /\ req'[r].exc = None
                   /\ UNCHANGED <<active_connections, websockets>>]_vars

\* a live message for a session_id that is not in the store has been handled
\* while both identities have an open channel and u1 is in a stored session
C13_Witness ==
    \E c \in DOMAIN handler :
        /\ handler[c].pc = "handled"
        /\ Get(handler[c].message, "type") = "message"
        /\ handler[c].session_id # None
        /\ handler[c].session_id \notin DOMAIN interview_sessions
        /\ handler[c].sends = <<>>
        /\ Open("u1") /\ Open("u2")
        /\ \E sid \in DOMAIN interview_sessions :
              interview_sessions[sid].candidate_id = "u1"

\* C14: GET /users/{user_id} for a user_id that is not in the store, and
\* GET /sessions/{session_id} for a session_id that is not in the store, are
\* answered 404 with an error detail and no document.
C14_ReadNotFound ==
    \A r \in Reqs :
        /\ (req[r].op = "get_user" /\ req[r].pc = "done"
            /\ req[r].user_id \notin DOMAIN users)
               => /\ req[r].status_code = 404
                  /\ DOMAIN req[r].response = {"detail"}
        /\ (req[r].op = "get_session" /\ req[r].pc = "done"
            /\ req[r].session_id \notin DOMAIN interview_sessions)
               => /\ req[r].status_code = 404
                  /\ DOMAIN req[r].response = {"detail"}

\* a read of a session_id that is not in the store has been answered while
\* another session and a user are stored
C14_Witness ==
    \E r \in Reqs :
        /\ req[r].op = "get_session" /\ req[r].pc = "done"
        /\ req[r].session_id \notin DOMAIN interview_sessions
        /\ req[r].status_code = 404
        /\ DOMAIN interview_sessions # {}
        /\ DOMAIN users # {}

\* C15: once no join is between its read of the session and the end of its
\* writes, a session whose candidate_id and hr_id are both set is 'active',
\* also when the joins that set them ran interleaved.
C15_ConcurrentJoinsActivate ==
    (\A r \in Reqs : req[r].op = "join" => req[r].pc \notin {"join_update", "join_user"})
        => \A sid \in DOMAIN interview_sessions :
              (interview_sessions[sid].candidate_id # None
               /\ interview_sessions[sid].hr_id # None)
                  => interview_sessions[sid].status = "active"

\* a send of coroutine t did not reach its peer
FailedSend(t) == \E x \in Range(t.sends) : x.outcome # "ok"

\* C16: a send that fails during a fan-out is dropped: the loop of
\* send_to_session goes on to the participants that remain, the handler of
\* the sending channel returns to its receive loop with the registry as it
\* was, and a persisted-message request is still answered 200.
C16_SendFailureDropped ==
    [][/\ \A c \in DOMAIN handler :
            (handler[c].pc \in {"fanout_find", "fanout_loop"}
             /\ handler'[c] # handler[c] /\ FailedSend(handler'[c]))
                => /\ handler'[c].pc \in {"fanout_loop", "handled"}
                   /\ handler'[c].exc = None
                   /\ active_connections' = active_connections
       /\ \A r \in Reqs :
            (req[r].pc \in {"fanout_find", "fanout_loop"}
             /\ req'[r] # req[r] /\ FailedSend(req'[r]))
                => /\ req'[r].pc \in {"fanout_loop", "done"}
                   /\ req'[r].pc = "done" => req'[r].status_code = 200]_vars

\* C17: every message in the sequence of a stored session carries that
\* session's session_id.
C17_MessageSessionId ==
    \A sid \in DOMAIN interview_sessions :
        \A i \in DOMAIN interview_sessions[sid].messages :
            interview_sessions[sid].messages[i].session_id = sid

\* C18: a persisted-message request for a session_id that is not in the
\* store is answered 404, has sent on no channel, and has put its message in
\* no session.
C18_MessageUnknownSession ==
    \A r \in Reqs :
        (req[r].op = "send_message" /\ req[r].pc = "done"
         /\ req[r].session_id \notin DOMAIN interview_sessions)
            => /\ req[r].status_code = 404
               /\ req[r].sends = <<>>
               /\ \A sid \in DOMAIN interview_sessions :
                     interview_sessions[sid].messages = submitted[sid]

\* C19: under requests that interleave at their store calls, every step
\* leaves a session's message sequence as it was or extends it by one element
\* at its end; the sequence is exactly the submissions made to the session,
\* each once; and only the $push of a persisted-message request changes it,
\* never a join.
C19_AppendOnly ==
    [][\A sid \in DOMAIN interview_sessions :
          /\ sid \in DOMAIN interview_sessions'
          /\ LET old == interview_sessions[sid].messages
                 new == interview_sessions'[sid].messages
             IN  /\ \/ new = old
                    \/ /\ Len(new) = Len(old) + 1
                       /\ SubSeq(new, 1, Len(old)) = old
                 /\ new = submitted'[sid]
                 /\ new # old
                       => \E r \in Reqs :
                             /\ Free(r)
                             /\ req'[r].op = "send_message"
                             /\ req'[r].session_id = sid
                             /\ new[Len(new)] = req'[r].message]_vars

\* two persisted-message requests are in flight together, after their $push
\* and before their fan-out, and the session holds both messages
C19_Witness ==
    /\ \A r \in {1, 2} : req[r].op = "send_message" /\ req[r].pc = "fanout_find"
    /\ req[1].session_id = req[2].session_id
    /\ req[1].message # req[2].message
    /\ req[1].session_id \in DOMAIN interview_sessions
    /\ interview_sessions[req[1].session_id].messages = <<req[1].message, req[2].message>>
    /\ interview_sessions[req[1].session_id].candidate_id # None

\* coroutine t has come to the send_text call of send_to_session: it has
\* sent, or the call has raised
Pushing(t) == t.sends # <<>> \/ t.exc # None

\* C20: when a persisted-message request has come to the live push of its
\* message to a participant, the stored sequence of the session, which is
\* what a session read returns, already holds that message.
C20_AppendBeforePush ==
    \A r \in Reqs :
        (req[r].op = "send_message" /\ Pushing(req[r]))
            => /\ req[r].session_id \in DOMAIN interview_sessions
               /\ req[r].message \in Range(interview_sessions[req[r].session_id].messages)

\* a persisted-message request has come to the push to a participant with an
\* open channel, and its message is stored
C20_Witness ==
    \E r \in Reqs :
        /\ req[r].op = "send_message" /\ req[r].pc = "done" /\ Pushing(req[r])
        /\ req[r].session_id \in DOMAIN interview_sessions
        /\ Open(interview_sessions[req[r].session_id].candidate_id)
        /\ interview_sessions[req[r].session_id].messages = <<req[r].message>>

\* C21: in one fan-out no identity is delivered the message twice, also when
\* one identity is both the candidate and the hr of the session.
C21_AtMostOncePerIdentity ==
    \A c \in DOMAIN handler :
        \A i, j \in DOMAIN handler[c].sends :
            (i # j /\ handler[c].sends[i].outcome = "ok"
             /\ handler[c].sends[j].outcome = "ok")
                => websockets[handler[c].sends[i].ch].user_id
                       # websockets[handler[c].sends[j].ch].user_id

\* C22: the step that completes a join with 200 leaves the joining user's
\* document, when there is one, with session_id equal to the session joined,
\* whatever the role and whatever session_id it held before, and leaves every
\* other user document, and the set of user documents, as they were.
C22_JoinSetsUserSession ==
    [][\A r \in Reqs :
          (req[r].pc = "join_user" /\ req'[r].pc = "done" /\ req'[r].status_code = 200)
              => /\ DOMAIN users' = DOMAIN users
                 /\ \A u \in DOMAIN users :
                       IF u = req[r].user_id
                       THEN users'[u].session_id = req[r].session_id
                       ELSE users'[u] = users[u]]_vars

\* u1, candidate of session s1, has joined s2 in a role the code does not
\* know and its document now names s2, while u2's document names s1
C22_Witness ==
    \E r \in Reqs :
        /\ req[r].op = "join" /\ req[r].pc = "done" /\ req[r].status_code = 200
        /\ req[r].user_id = "u1" /\ req[r].session_id = "s2"
        /\ req[r].role = "observer"
        /\ "s1" \in DOMAIN interview_sessions
        /\ interview_sessions["s1"].candidate_id = "u1"
        /\ "u1" \in DOMAIN users /\ users["u1"].session_id = "s2"
        /\ "u2" \in DOMAIN users /\ users["u2"].session_id = "s1"

\* C23: under requests that interleave at their store calls, a stored
\* session stays stored, its status is 'waiting' or 'active' and never
\* 'completed', an 'active' session stays 'active', and a candidate_id or
\* hr_id that is set is never null again.
C23_StatusOnlyAdvances ==
    [][\A sid \in DOMAIN interview_sessions :
          /\ sid \in DOMAIN interview_sessions'
          /\ LET old == interview_sessions[sid]
                 new == interview_sessions'[sid]
             IN  /\ old.status \in {"waiting", "active"}
                 /\ new.status \in {"waiting", "active"}
                 /\ old.status = "active" => new.status = "active"
                 /\ old.candidate_id # None => new.candidate_id # None
                 /\ old.hr_id # None => new.hr_id # None]_vars

\* a join whose update_data was built without a status has written its slot
\* and the session is 'active' with a message stored
C23_Witness ==
    \E r \in Reqs :
        /\ req[r].op = "join" /\ req[r].pc = "join_user"
        /\ req[r].role = "candidate"
        /\ "status" \notin DOMAIN req[r].update_data
        /\ req[r].session_id \in DOMAIN interview_sessions
        /\ interview_sessions[req[r].session_id].status = "active"
        /\ interview_sessions[req[r].session_id].messages # <<>>

\* the session field of a role's slot, and of the other role's
SlotOf(role) == IF role = "candidate" THEN "candidate_id" ELSE "hr_id"
OtherSlotOf(role) == IF role = "candidate" THEN "hr_id" ELSE "candidate_id"

\* C24: the session write of a join whose role's slot is occupied puts the
\* joining user in that slot and leaves the other slot, the message
\* sequence, every other session and every user document as they were; the
\* user write that follows changes the joining user's document only, so the
\* displaced user's document keeps its session_id.
C24_SlotOverwrite ==
    [][\A r \in Reqs :
          /\ (/\ req[r].pc = "join_update" /\ req'[r].pc = "join_user"
              /\ req[r].role \in {"candidate", "hr"}
              /\ req[r].session_id \in DOMAIN interview_sessions
              /\ interview_sessions[req[r].session_id][SlotOf(req[r].role)] # None)
                 => LET sid == req[r].session_id
                        old == interview_sessions[sid]
                        new == interview_sessions'[sid]
                    IN  /\ new[SlotOf(req[r].role)] = req[r].user_id
                        /\ new[OtherSlotOf(req[r].role)] = old[OtherSlotOf(req[r].role)]
                        /\ new.messages = old.messages
                        /\ \A s \in DOMAIN interview_sessions \ {sid} :
                              interview_sessions'[s] = interview_sessions[s]
                        /\ users' = users
          /\ (req[r].op = "join" /\ req[r].pc = "join_user" /\ req'[r].pc = "done")
                 => /\ interview_sessions' = interview_sessions
                    /\ \A u \in DOMAIN users \ {req[r].user_id} :
                          u \in DOMAIN users' /\ users'[u] = users[u]]_vars

\* u2 has joined session s1 as candidate and holds both its slots, a message
\* is stored, and u1, who holds no slot any more, still names s1
C24_Witness ==
    \E r \in Reqs :
        /\ req[r].op = "join" /\ req[r].pc = "done" /\ req[r].status_code = 200
        /\ req[r].user_id = "u2" /\ req[r].session_id = "s1"
        /\ req[r].role = "candidate"
        /\ interview_sessions["s1"].candidate_id = "u2"
        /\ interview_sessions["s1"].hr_id = "u2"
        /\ interview_sessions["s1"].status = "active"
        /\ interview_sessions["s1"].messages # <<>>
        /\ "u1" \in DOMAIN users /\ users["u1"].session_id = "s1"

\* C25: the steps in which a handler deals with a live 'message' envelope
\* change no session document, no user document and no registry entry; the
\* steps of a persisted-message request change no user document, no registry
\* entry and, of the sessions, only the message sequence of the session the
\* request names.
C25_FanoutReadOnly ==
    [][/\ \A c \in DOMAIN handler :
            (handler[c].pc \in {"receive", "fanout_find", "fanout_loop"}
             /\ handler'[c] # handler[c]
             /\ Get(handler'[c].message, "type") = "message")
                => UNCHANGED <<interview_sessions, users, active_connections>>
       /\ \A r \in Reqs :
            (req'[r] # req[r] /\ req'[r].op = "send_message")
                => /\ UNCHANGED <<users, active_connections>>
                   /\ DOMAIN interview_sessions' = DOMAIN interview_sessions
                   /\ \A sid \in DOMAIN interview_sessions :
                         IF sid = req'[r].session_id
                         THEN [interview_sessions'[sid] EXCEPT !.messages = <<>>]
                                  = [interview_sessions[sid] EXCEPT !.messages = <<>>]
                         ELSE interview_sessions'[sid] = interview_sessions[sid]]_vars

====
